---- MODULE Spec2Model ----
(***************************************************************************)
(* A model of src/app.py: the load_data pipeline (cell normalisation,      *)
(* effective-value reconciliation, filtering, date sort), the selection of *)
(* the latest / previous period, the exchange-rate guard, the market-value *)
(* / cost-basis fallback, the allocation weights, and the month-by-month   *)
(* projection loop.                                                        *)
(*                                                                         *)
(* Numbers.  Every float of the script is a fixed-point number with one    *)
(* decimal digit, held as an integer count of tenths (32.5 is 325).  A     *)
(* product or quotient the script forms is computed exactly and rounded    *)
(* down to that grid, as a double is rounded to its own grid.  A ratio     *)
(* that the script only displays (a weight, a percentage) is kept as an    *)
(* exact pair <<numerator, denominator>>.                                  *)
(*                                                                         *)
(* Text.  A spreadsheet cell is a sequence of one-character strings, the   *)
(* text astype(str) yields for it (a blank cell reads "nan").              *)
(*                                                                         *)
(* Column labels are ASCII stand-ins for the sheet's labels:               *)
(*   date 日期, true_total 真實總資產(TWD), total 總資產(TWD),                  *)
(*   total_plus_car 總資產+汽車折舊, car 汽車預估價格(GPT模型),                   *)
(*   stock_value 股票價值(USD), stock_cost 股票成本(USD),                      *)
(*   etf_value ETF價值(EUR), etf_cost ETF(EUR), twd_cash 台幣現金(TWD),        *)
(*   fx_cash 外幣現金(EUR), real_estate 不動產(TWD), crypto 加密貨幣(USD),       *)
(*   other 其他(TWD), USDTWD, EURTWD, gain 總資產增額(TWD).                    *)
(***************************************************************************)
EXTENDS Integers, Sequences, FiniteSets, TLC

VARIABLES
    sheet,          \* the table pd.read_csv returns: [columns, rows]
    widgets,        \* what the user has set in the sidebar for this run
    pc,             \* the script's position
    df_total,       \* load_data's result
    latest, prev,   \* df_total.iloc[-1], df_total.iloc[-2]
    usd_rate, eur_rate,
    stock_val, etf_val, crypto_val, fx_cash_val, twd_cash_val,
    real_estate_val, other_val, car_val, stock_cost, etf_cost,
    total_market_val,
    forecast_years, rate_stock, rate_etf, rate_crypto, rate_safe,
    car_depreciation_rate, monthly_contribution,
    total_investable, w_stock, w_etf, w_crypto, w_safe, weighted_cagr,
    diff, pct,
    curr_date, months, curr_stock, curr_etf, curr_crypto, curr_safe, curr_car,
    invest_sum, alloc_stock, alloc_etf, alloc_crypto, alloc_safe,
    i, future_vals, final_v

inputVars == <<sheet, widgets>>
latestVars == <<latest, prev, usd_rate, eur_rate, stock_val, etf_val,
                crypto_val, fx_cash_val, twd_cash_val, real_estate_val,
                other_val, car_val, stock_cost, etf_cost, total_market_val>>
sidebarVars == <<forecast_years, rate_stock, rate_etf, rate_crypto, rate_safe,
                 car_depreciation_rate, monthly_contribution>>
weightVars == <<total_investable, w_stock, w_etf, w_crypto, w_safe,
                weighted_cagr, diff, pct>>
allocVars == <<curr_date, months, invest_sum, alloc_stock, alloc_etf,
               alloc_crypto, alloc_safe>>
balanceVars == <<curr_stock, curr_etf, curr_crypto, curr_safe, curr_car>>
loopVars == <<i, future_vals, final_v>>
vars == <<inputVars, pc, df_total, latestVars, sidebarVars, weightVars,
          allocVars, balanceVars, loopVars>>

----------------------------------------------------------------------------
(* Bounds of the model *)

\* the most rows of a sheet whose rows vary freely
MaxRows == 2
\* the largest value the forecast_years slider takes in the model
MaxYears == 1

----------------------------------------------------------------------------
(* Fixed-point arithmetic *)

Abs(n) == IF n < 0 THEN -n ELSE n

\* floor(a * n / d) for d > 0, without forming a * n
MulDivPos(a, n, d) == (a \div d) * n + ((a % d) * n) \div d

\* floor(a * n / d) for d # 0
MulDiv(a, n, d) == IF d > 0 THEN MulDivPos(a, n, d) ELSE MulDivPos(-a, n, -d)

\* the product of two fixed-point numbers
Mul(a, b) == MulDiv(a, b, 10)

\* an exact ratio, kept as the pair it is the quotient of
Ratio(n, d) == <<n, d>>

----------------------------------------------------------------------------
(* Column labels *)

DateCol == "date"
GainCol == "gain"
TargetCols == {"true_total", "total", "total_plus_car", "car",
               "stock_value", "stock_cost", "etf_value", "etf_cost",
               "twd_cash", "fx_cash", "real_estate", "crypto", "other",
               "USDTWD", "EURTWD", "gain"}

----------------------------------------------------------------------------
(* Field normaliser: lines 51-53 *)

Digits == {"0", "1", "2", "3", "4", "5", "6", "7", "8", "9"}

DigitVal(c) ==
    CASE c = "0" -> 0 [] c = "1" -> 1 [] c = "2" -> 2 [] c = "3" -> 3
      [] c = "4" -> 4 [] c = "5" -> 5 [] c = "6" -> 6 [] c = "7" -> 7
      [] c = "8" -> 8 [] c = "9" -> 9

RECURSIVE DigitsVal(_)
\* the number a string of digits denotes (0 for the empty string)
DigitsVal(s) ==
    IF s = <<>> THEN 0
    ELSE DigitsVal(SubSeq(s, 1, Len(s) - 1)) * 10 + DigitVal(s[Len(s)])

NotComma(c) == c # ","
\* .str.replace(',', '', regex=False)
RemoveCommas(s) == SelectSeq(s, NotComma)

KeptChar(c) == c \in Digits \/ c = "." \/ c = "-"
\* re.sub(r'[^\d\.\-]', '', x)
StripNonNumeric(s) == SelectSeq(s, KeptChar)

\* pd.to_numeric(..., errors='coerce') of one cleaned cell: <<TRUE, value>>, or
\* <<FALSE, 0>> for NaN.  A numeral is an optional minus sign and digits with at
\* most one decimal point; digits past the first decimal fall off the grid.
ToNumeric(s) ==
    LET neg == Len(s) > 0 /\ s[1] = "-"
        body == IF neg THEN Tail(s) ELSE s
        dots == {k \in 1..Len(body) : body[k] = "."}
        wellFormed == /\ \A k \in 1..Len(body) : body[k] # "-"
                      /\ Cardinality(dots) <= 1
                      /\ \E k \in 1..Len(body) : body[k] \in Digits
        dot == IF dots = {} THEN Len(body) + 1 ELSE CHOOSE k \in dots : TRUE
        whole == DigitsVal(SubSeq(body, 1, dot - 1))
        tenth == IF dot + 1 <= Len(body) THEN DigitVal(body[dot + 1]) ELSE 0
        mag == whole * 10 + tenth
    IN IF wellFormed THEN <<TRUE, IF neg THEN -mag ELSE mag>> ELSE <<FALSE, 0>>

\* .fillna(0)
FillNa(p) == IF p[1] THEN p[2] ELSE 0

\* lines 48-55 for one cell of a target column
NormalizeCell(text) == FillNa(ToNumeric(StripNonNumeric(RemoveCommas(text))))

----------------------------------------------------------------------------
(* Dates: <<year, month, day>>; NaT is pandas' not-a-time *)

NaT == <<0, 0, 0>>

IsLeap(y) == (y % 4 = 0 /\ y % 100 # 0) \/ y % 400 = 0

\* calendar.monthrange(y, m)[1]
DaysInMonth(y, m) ==
    IF m = 2 THEN (IF IsLeap(y) THEN 29 ELSE 28)
    ELSE IF m \in {4, 6, 9, 11} THEN 30 ELSE 31

\* pd.to_datetime(..., errors='coerce') of one cell: an ISO date YYYY-MM-DD
\* parses, the other texts the model feeds it (blank, words) give NaT
ToDatetime(s) ==
    IF /\ Len(s) = 10
       /\ s[5] = "-" /\ s[8] = "-"
       /\ \A k \in {1, 2, 3, 4, 6, 7, 9, 10} : s[k] \in Digits
    THEN LET y == DigitsVal(SubSeq(s, 1, 4))
             m == DigitsVal(SubSeq(s, 6, 7))
             d == DigitsVal(SubSeq(s, 9, 10))
         IN IF y >= 1 /\ m \in 1..12 /\ d >= 1 /\ d <= DaysInMonth(y, m)
            THEN <<y, m, d>> ELSE NaT
    ELSE NaT

\* date order of two parsed dates
DateLeq(a, b) ==
    \/ a[1] < b[1]
    \/ a[1] = b[1] /\ a[2] < b[2]
    \/ a[1] = b[1] /\ a[2] = b[2] /\ a[3] <= b[3]

DateLt(a, b) == DateLeq(a, b) /\ a # b

\* curr_date + relativedelta(months=n) for a parsed date: the month moves on,
\* the day is clamped to the target month's length
AddMonths(date, n) ==
    LET total == (date[1] * 12 + (date[2] - 1)) + n
        y == total \div 12
        m == (total % 12) + 1
        d == IF date[3] < DaysInMonth(y, m) THEN date[3] ELSE DaysInMonth(y, m)
    IN <<y, m, d>>

----------------------------------------------------------------------------
(* load_data: lines 34-73 *)

\* the value of a target column in one source row: lines 48-55
ColumnValue(columns, row, col) ==
    IF col \in columns THEN NormalizeCell(row[col]) ELSE 0

\* np.where(true_total > 0, true_total, total_plus_car): lines 60-64
EffectiveAsset(val) ==
    IF val["true_total"] > 0 THEN val["true_total"] ELSE val["total_plus_car"]

\* one source row after lines 48-64; src is its index in the sheet
NormalizeRow(columns, row, k) ==
    LET val == [c \in TargetCols |-> ColumnValue(columns, row, c)]
    IN [src |-> k,
        date |-> ToDatetime(row[DateCol]),
        val |-> val,
        Effective_Asset |-> EffectiveAsset(val)]

\* line 67 with >= in place of >
ValidRowNonNegative(r) == r.Effective_Asset >= 0

\* the row filter of line 67
ValidRow(r) == r.Effective_Asset > 0

\* the rows of line 67, in source order
FilterRows(columns, rows) ==
    SelectSeq([k \in 1..Len(rows) |-> NormalizeRow(columns, rows[k], k)], ValidRow)

\* the permutations of 1..n
IndexPermutations(n) ==
    {p \in [1..n -> 1..n] : \A a, b \in 1..n : a # b => p[a] # p[b]}

\* whether placing row a before row b agrees with sort_values('date'): parsed
\* dates ascend; NaT rows go last and keep their source order; rows with equal
\* dates may come out in either order (the default quicksort is not stable)
MayPrecede(a, b) ==
    IF a.date = NaT THEN b.date = NaT /\ a.src < b.src
    ELSE b.date = NaT \/ DateLeq(a.date, b.date)

\* line 68 left out: the filtered rows in source order
Unsorted(f) == {f}

\* every outcome of line 68 for the filtered rows f
SortValues(f) ==
    {[k \in 1..Len(f) |-> f[p[k]]] :
        p \in {q \in IndexPermutations(Len(f)) :
                 \A a, b \in 1..Len(f) : a < b => MayPrecede(f[q[a]], f[q[b]])}}

\* the frames load_data may return; a sheet without a date column raises inside
\* the try (line 57) and the except clause returns an empty frame
LoadDataResults(sh) ==
    IF DateCol \notin sh.columns THEN {<<>>}
    ELSE SortValues(FilterRows(sh.columns, sh.rows))

----------------------------------------------------------------------------
(* Latest period: lines 83-109 *)

\* the plausibility floor of an exchange rate (10) and the default rates
\* (32.5, 35.0) of lines 87-88, in tenths
RateFloor == 100
UsdDefault == 325
EurDefault == 350

\* latest.get(col, default): a column load_data has filled is always present
Get(row, col, default) ==
    IF col \in DOMAIN row.val THEN row.val[col] ELSE default

\* lines 87-88 without the floor test
UnguardedRate(row, col, default) == Get(row, col, default)

\* lines 87-88: the rate of the row when it exceeds the floor, else the default
GuardedRate(row, col, default) ==
    IF Get(row, col, 0) > RateFloor THEN Get(row, col, default) ELSE default

\* lines 92-96 without the fallback to the cost basis
MarketOnly(row, marketCol, costCol, rate) == Mul(Get(row, marketCol, 0), rate)

\* lines 92-96: the market value in base currency, the cost basis when that is 0
MarketOrCost(row, marketCol, costCol, rate) ==
    LET market == Mul(Get(row, marketCol, 0), rate)
    IN IF market = 0 THEN Mul(Get(row, costCol, 0), rate) ELSE market

----------------------------------------------------------------------------
(* Sidebar: lines 112-165 *)

Scenarios == {"Custom", "Cathie Wood", "Wall Street", "Ray Dalio", "Michael Burry"}

\* lines 135-144: the preset growth rates, in tenths of a percent
ScenarioDefaults(scenario) ==
    CASE scenario = "Cathie Wood" ->
           [stock |-> 250, etf |-> 120, crypto |-> 500, safe |-> 20]
      [] scenario = "Wall Street" ->
           [stock |-> 100, etf |-> 80, crypto |-> 150, safe |-> 15]
      [] scenario = "Ray Dalio" ->
           [stock |-> 60, etf |-> 50, crypto |-> 50, safe |-> 20]
      [] scenario = "Michael Burry" ->
           [stock |-> -100, etf |-> -50, crypto |-> -200, safe |-> 10]
      [] OTHER ->
           [stock |-> 150, etf |-> 70, crypto |-> 200, safe |-> 10]

\* a number_input: the value the user typed, else the default it was given
NumberInput(typed, default) == IF typed[1] THEN typed[2] ELSE default

RECURSIVE SumSeq(_)
SumSeq(s) == IF s = <<>> THEN 0 ELSE s[1] + SumSeq(Tail(s))

PositiveGain(r) == r.val[GainCol] > 0

\* the default contribution (50000) of line 160, in tenths
DefaultGain == 500000

\* lines 159-161: int() of the mean positive period gain, 50000 without one
HistAvgGain(df) ==
    LET gains == SelectSeq(df, PositiveGain)
        sum == SumSeq([k \in 1..Len(gains) |-> gains[k].val[GainCol]])
    IN IF gains = <<>> THEN DefaultGain
       ELSE (sum \div (Len(gains) * 10)) * 10

----------------------------------------------------------------------------
(* Weights and projection: lines 168-177, 274-309 *)

\* lines 168-169; "1" is one unit
TotalInvestable(total, car) == IF total - car <= 0 THEN 10 ELSE total - car

\* lines 286-287
InvestSum(stock, etf, crypto, safe) ==
    IF stock + etf + crypto + safe = 0 THEN 10 ELSE stock + etf + crypto + safe

\* lines 289-292: monthly_contribution * (class / invest_sum)
Allocation(contribution, class, sum) == MulDiv(contribution, class, sum)

\* lines 299-302: balance * (1 + rate/100/12) + allocation, rate in tenths of a percent
Compound(balance, rate, alloc) == MulDiv(balance, 12000 + rate, 12000) + alloc

\* lines 305-306 with the sign of the rate flipped
Appreciate(balance, rate) ==
    LET next == MulDiv(balance, 12000 + rate, 12000)
    IN IF next < 0 THEN 0 ELSE next

\* lines 305-306: balance * (1 - rate/100/12), floored at zero
Depreciate(balance, rate) ==
    LET next == MulDiv(balance, 12000 - rate, 12000)
    IN IF next < 0 THEN 0 ELSE next

----------------------------------------------------------------------------
(* Inputs: cell texts, sheets and sidebar settings *)

Blank == <<"n", "a", "n">>
NotADate == <<"n", "/", "a">>
Jan31 == <<"2", "0", "2", "4", "-", "0", "1", "-", "3", "1">>
Feb29 == <<"2", "0", "2", "4", "-", "0", "2", "-", "2", "9">>
Mar31 == <<"2", "0", "2", "4", "-", "0", "3", "-", "3", "1">>

AllCols == TargetCols \cup {DateCol}

\* a source row: the cells given, every other cell blank
Row(date, cells) ==
    [c \in AllCols |->
        IF c = DateCol THEN date
        ELSE IF c \in DOMAIN cells THEN cells[c] ELSE Blank]

Totals(true, plus, total) ==
    ("true_total" :> true) @@ ("total_plus_car" :> plus) @@ ("total" :> total)

\* the sidebar as the script first shows it, with the horizon slider at 1 year
DefaultWidgets ==
    [forecast_years |-> 1, scenario |-> "Custom",
     rate_stock |-> <<FALSE, 0>>, rate_etf |-> <<FALSE, 0>>,
     rate_crypto |-> <<FALSE, 0>>, rate_safe |-> <<FALSE, 0>>,
     car_depreciation_rate |-> 150,
     monthly_contribution |-> <<FALSE, 0>>,
     refresh |-> FALSE]

\* Sheets whose rows vary in date and in the three total columns.
TotalTexts ==
    {<<<<"0">>, <<"2", ",", "0", "0", "0">>, <<"1", ",", "0", "0", "0">>>>,
     <<<<"3", ",", "0", "0", "0">>, <<"2", ",", "0", "0", "0">>, <<"1", ",", "0", "0", "0">>>>,
     <<Blank, Blank, <<"1", ",", "0", "0", "0">>>>,
     <<<<"-", "5">>, <<"0">>, <<"0">>>>,
     <<Blank, Blank, Blank>>}

VariedRows ==
    {Row(d, Totals(t[1], t[2], t[3])) : d \in {Jan31, Feb29, NotADate}, t \in TotalTexts}

RECURSIVE SeqsUpTo(_, _)
\* the sequences over S of length at most n
SeqsUpTo(S, n) ==
    IF n = 0 THEN {<<>>}
    ELSE LET shorter == SeqsUpTo(S, n - 1)
         IN shorter \cup {Append(q, x) : q \in {r \in shorter : Len(r) = n - 1}, x \in S}

VariedSheets ==
    {[columns |-> AllCols, rows |-> rs] : rs \in SeqsUpTo(VariedRows, MaxRows)}

\* One-row sheets: every sign combination of the three total columns.
SignSheets ==
    {[columns |-> AllCols, rows |-> <<Row(Jan31, Totals(a, b, c))>>] :
        a \in {<<"-", "5">>, <<"0">>, <<"3", ",", "0", "0", "0">>},
        b \in {<<"-", "7">>, Blank, <<"N", "T", "$", "2", ",", "0", "0", "0">>},
        c \in {<<"-", "9">>, <<"0">>, <<"1", ",", "0", "0", "0">>}}

\* Two-row sheets whose last row varies in its rates and holdings.
EarlierRow ==
    Row(Jan31, Totals(<<"5", ",", "0", "0", "0">>, Blank, Blank))

HoldingRows ==
    {Row(Feb29,
         Totals(<<"6", ",", "0", "0", "0">>, Blank, Blank)
         @@ ("car" :> <<"1", ",", "0", "0", "0">>)
         @@ ("USDTWD" :> usd) @@ ("EURTWD" :> eur)
         @@ ("stock_value" :> sv) @@ ("stock_cost" :> <<"1", "0", "0">>)
         @@ ("etf_value" :> ev) @@ ("etf_cost" :> <<"4", "0">>)
         @@ ("crypto" :> cr) @@ ("fx_cash" :> <<"1", "0">>)
         @@ ("twd_cash" :> cash)) :
        usd \in {Blank, <<"0">>, <<"9", ".", "5">>, <<"3", "1", ".", "5">>, <<"-", "3", "0">>},
        eur \in {Blank, <<"3", "4">>},
        sv \in {Blank, <<"0">>, <<"-", "2", "0">>, <<"1", "1", "0">>},
        ev \in {Blank, <<"-", "1", "0">>, <<"5", "0">>},
        cr \in {<<"0">>, <<"5">>},
        cash \in {Blank, <<"9", "0", "0">>}}

HoldingSheets ==
    {[columns |-> AllCols, rows |-> <<EarlierRow, r>>] : r \in HoldingRows}

\* Sheets that lack columns: no rate and market-value columns; no date column.
NarrowColumns == AllCols \ {"USDTWD", "EURTWD", "stock_value", "etf_value"}

NarrowSheets ==
    {[columns |-> cols, rows |-> <<[c \in cols |-> r[c]]>>] :
        cols \in {NarrowColumns, TargetCols},
        r \in {Row(Feb29,
                   Totals(<<"6", ",", "0", "0", "0">>, Blank, Blank)
                   @@ ("stock_cost" :> <<"1", "0", "0">>)
                   @@ ("etf_cost" :> <<"4", "0">>)
                   @@ ("crypto" :> <<"5">>))}}

\* Sheets for the projection: a funded portfolio with a car, an empty
\* portfolio, and a portfolio whose car cell is negative.
FundedRows ==
    <<Row(Jan31, Totals(<<"5", ",", "0", "0", "0">>, Blank, Blank)
                 @@ ("gain" :> <<"2", "5", "0">>)),
      Row(Mar31, Totals(<<"9", ",", "0", "0", "0">>, Blank, Blank)
                 @@ ("car" :> <<"4", ",", "0", "0", "0">>)
                 @@ ("USDTWD" :> <<"3", "0">>) @@ ("EURTWD" :> <<"3", "5">>)
                 @@ ("stock_value" :> <<"5", "0">>) @@ ("stock_cost" :> <<"4", "0">>)
                 @@ ("etf_value" :> <<"2", "0">>) @@ ("etf_cost" :> <<"2", "0">>)
                 @@ ("crypto" :> <<"1", "0">>) @@ ("fx_cash" :> <<"1", "0">>)
                 @@ ("twd_cash" :> <<"1", ",", "1", "5", "0">>)
                 @@ ("real_estate" :> <<"5", "0", "0">>)
                 @@ ("other" :> <<"5", "0">>)
                 @@ ("gain" :> <<"3", "5", "5">>))>>

EmptyPortfolioRows ==
    <<Row(Jan31, Totals(Blank, <<"8", "0", "0">>, Blank))>>

NegativeCarRows ==
    <<Row(Feb29, Totals(<<"2", ",", "0", "0", "0">>, Blank, Blank)
                 @@ ("car" :> <<"-", "5", "0", "0">>)
                 @@ ("twd_cash" :> <<"2", ",", "5", "0", "0">>))>>

ProjectionSheets ==
    {[columns |-> AllCols, rows |-> rs] :
        rs \in {FundedRows, EmptyPortfolioRows, NegativeCarRows}}

ProjectionWidgets ==
    {[DefaultWidgets EXCEPT !.forecast_years = y, !.scenario = sc,
                            !.car_depreciation_rate = dep,
                            !.monthly_contribution = mc] :
        y \in 1..MaxYears, sc \in Scenarios, dep \in {50, 150, 300},
        mc \in {<<FALSE, 0>>, <<TRUE, 0>>, <<TRUE, 100000>>}}

\* A run with typed growth rates, and a run in which the refresh button is pressed.
TypedWidgets ==
    {[DefaultWidgets EXCEPT !.rate_stock = <<TRUE, 120>>, !.rate_etf = <<TRUE, -300>>,
                            !.rate_crypto = <<TRUE, 0>>, !.rate_safe = <<TRUE, 5>>],
     [DefaultWidgets EXCEPT !.refresh = TRUE]}

Runs ==
    {[sheet |-> sh, widgets |-> DefaultWidgets] :
        sh \in VariedSheets \cup SignSheets \cup HoldingSheets \cup NarrowSheets}
    \cup {[sheet |-> sh, widgets |-> w] :
             sh \in ProjectionSheets, w \in ProjectionWidgets \cup TypedWidgets}

----------------------------------------------------------------------------
(* The script as a state machine *)

NoRow == [src |-> 0, date |-> NaT, val |-> [c \in TargetCols |-> 0],
          Effective_Asset |-> 0]

\* the script's variables before any of it has run
Unset ==
    /\ df_total = <<>>
    /\ latest = NoRow /\ prev = NoRow
    /\ usd_rate = 0 /\ eur_rate = 0
    /\ stock_val = 0 /\ etf_val = 0 /\ crypto_val = 0 /\ fx_cash_val = 0
    /\ twd_cash_val = 0 /\ real_estate_val = 0 /\ other_val = 0 /\ car_val = 0
    /\ stock_cost = 0 /\ etf_cost = 0 /\ total_market_val = 0
    /\ forecast_years = 0 /\ rate_stock = 0 /\ rate_etf = 0 /\ rate_crypto = 0
    /\ rate_safe = 0 /\ car_depreciation_rate = 0 /\ monthly_contribution = 0
    /\ total_investable = 0
    /\ w_stock = Ratio(0, 1) /\ w_etf = Ratio(0, 1) /\ w_crypto = Ratio(0, 1)
    /\ w_safe = Ratio(0, 1) /\ weighted_cagr = Ratio(0, 1)
    /\ diff = 0 /\ pct = Ratio(0, 1)
    /\ curr_date = NaT /\ months = 0
    /\ curr_stock = 0 /\ curr_etf = 0 /\ curr_crypto = 0 /\ curr_safe = 0
    /\ curr_car = 0
    /\ invest_sum = 0 /\ alloc_stock = 0 /\ alloc_etf = 0 /\ alloc_crypto = 0
    /\ alloc_safe = 0
    /\ i = 0 /\ future_vals = <<>> /\ final_v = 0

Init ==
    /\ \E run \in Runs : sheet = run.sheet /\ widgets = run.widgets
    /\ pc = "start"
    /\ Unset

\* line 75
LoadData ==
    /\ pc = "start"
    /\ df_total' \in LoadDataResults(sheet)
    /\ pc' = "loaded"
    /\ UNCHANGED <<inputVars, latestVars, sidebarVars, weightVars, allocVars,
                   balanceVars, loopVars>>

\* lines 80, 326-327
WarnEmpty ==
    /\ pc = "loaded"
    /\ df_total = <<>>
    /\ pc' = "warned"
    /\ UNCHANGED <<inputVars, df_total, latestVars, sidebarVars, weightVars,
                   allocVars, balanceVars, loopVars>>

\* lines 83-109
ReadLatest ==
    /\ pc = "loaded"
    /\ df_total # <<>>
    /\ LET l == df_total[Len(df_total)]
           u == GuardedRate(l, "USDTWD", UsdDefault)
           e == GuardedRate(l, "EURTWD", EurDefault)
       IN /\ latest' = l
          /\ prev' = IF Len(df_total) > 1 THEN df_total[Len(df_total) - 1] ELSE l
          /\ usd_rate' = u
          /\ eur_rate' = e
          /\ stock_val' = MarketOrCost(l, "stock_value", "stock_cost", u)
          /\ etf_val' = MarketOrCost(l, "etf_value", "etf_cost", e)
          /\ crypto_val' = Mul(Get(l, "crypto", 0), u)
          /\ fx_cash_val' = Mul(Get(l, "fx_cash", 0), e)
          /\ twd_cash_val' = Get(l, "twd_cash", 0)
          /\ real_estate_val' = Get(l, "real_estate", 0)
          /\ other_val' = Get(l, "other", 0)
          /\ car_val' = Get(l, "car", 0)
          /\ stock_cost' = Mul(Get(l, "stock_cost", 0), u)
          /\ etf_cost' = Mul(Get(l, "etf_cost", 0), e)
          /\ total_market_val' = l.Effective_Asset
    /\ pc' = "sidebar"
    /\ UNCHANGED <<inputVars, df_total, sidebarVars, weightVars, allocVars,
                   balanceVars, loopVars>>

\* lines 112-161
Sidebar ==
    /\ pc = "sidebar"
    /\ ~widgets.refresh
    /\ LET def == ScenarioDefaults(widgets.scenario)
       IN /\ forecast_years' = widgets.forecast_years
          /\ rate_stock' = NumberInput(widgets.rate_stock, def.stock)
          /\ rate_etf' = NumberInput(widgets.rate_etf, def.etf)
          /\ rate_crypto' = NumberInput(widgets.rate_crypto, def.crypto)
          /\ rate_safe' = NumberInput(widgets.rate_safe, def.safe)
          /\ car_depreciation_rate' = widgets.car_depreciation_rate
          /\ monthly_contribution' =
                 NumberInput(widgets.monthly_contribution, HistAvgGain(df_total))
    /\ pc' = "weights"
    /\ UNCHANGED <<inputVars, df_total, latestVars, weightVars, allocVars,
                   balanceVars, loopVars>>

\* lines 163-165: the refresh button clears the cache and reruns the script
Rerun ==
    /\ pc = "sidebar"
    /\ widgets.refresh
    /\ widgets' = [widgets EXCEPT !.refresh = FALSE]
    /\ pc' = "start"
    /\ df_total' = <<>>
    /\ latest' = NoRow /\ prev' = NoRow
    /\ usd_rate' = 0 /\ eur_rate' = 0
    /\ stock_val' = 0 /\ etf_val' = 0 /\ crypto_val' = 0 /\ fx_cash_val' = 0
    /\ twd_cash_val' = 0 /\ real_estate_val' = 0 /\ other_val' = 0 /\ car_val' = 0
    /\ stock_cost' = 0 /\ etf_cost' = 0 /\ total_market_val' = 0
    /\ forecast_years' = 0 /\ rate_stock' = 0 /\ rate_etf' = 0 /\ rate_crypto' = 0
    /\ rate_safe' = 0 /\ car_depreciation_rate' = 0 /\ monthly_contribution' = 0
    /\ total_investable' = 0
    /\ w_stock' = Ratio(0, 1) /\ w_etf' = Ratio(0, 1) /\ w_crypto' = Ratio(0, 1)
    /\ w_safe' = Ratio(0, 1) /\ weighted_cagr' = Ratio(0, 1)
    /\ diff' = 0 /\ pct' = Ratio(0, 1)
    /\ curr_date' = NaT /\ months' = 0
    /\ curr_stock' = 0 /\ curr_etf' = 0 /\ curr_crypto' = 0 /\ curr_safe' = 0
    /\ curr_car' = 0
    /\ invest_sum' = 0 /\ alloc_stock' = 0 /\ alloc_etf' = 0 /\ alloc_crypto' = 0
    /\ alloc_safe' = 0
    /\ i' = 0 /\ future_vals' = <<>> /\ final_v' = 0
    /\ UNCHANGED sheet

\* lines 168-183
ComputeWeights ==
    /\ pc = "weights"
    /\ LET t == TotalInvestable(total_market_val, car_val)
           safe == twd_cash_val + fx_cash_val + real_estate_val + other_val
       IN /\ total_investable' = t
          /\ w_stock' = Ratio(stock_val, t)
          /\ w_etf' = Ratio(etf_val, t)
          /\ w_crypto' = Ratio(crypto_val, t)
          /\ w_safe' = Ratio(safe, t)
          /\ weighted_cagr' =
                 Ratio(stock_val * rate_stock + etf_val * rate_etf
                         + crypto_val * rate_crypto + safe * rate_safe, t)
    /\ diff' = latest.Effective_Asset - prev.Effective_Asset
    /\ pct' = IF prev.Effective_Asset # 0
              THEN Ratio((latest.Effective_Asset - prev.Effective_Asset) * 100,
                         prev.Effective_Asset)
              ELSE Ratio(0, 1)
    /\ pc' = "projection"
    /\ UNCHANGED <<inputVars, df_total, latestVars, sidebarVars, allocVars,
                   balanceVars, loopVars>>

\* lines 274-294
StartProjection ==
    /\ pc = "projection"
    /\ LET safe == twd_cash_val + fx_cash_val + real_estate_val + other_val
           sum == InvestSum(stock_val, etf_val, crypto_val, safe)
       IN /\ curr_date' = latest.date
          /\ months' = forecast_years * 12
          /\ curr_stock' = stock_val
          /\ curr_etf' = etf_val
          /\ curr_crypto' = crypto_val
          /\ curr_safe' = safe
          /\ curr_car' = car_val
          /\ invest_sum' = sum
          /\ alloc_stock' = Allocation(monthly_contribution, stock_val, sum)
          /\ alloc_etf' = Allocation(monthly_contribution, etf_val, sum)
          /\ alloc_crypto' = Allocation(monthly_contribution, crypto_val, sum)
          /\ alloc_safe' = Allocation(monthly_contribution, safe, sum)
    /\ i' = 0
    /\ future_vals' = <<>>
    /\ pc' = "loop"
    /\ UNCHANGED <<inputVars, df_total, latestVars, sidebarVars, weightVars, final_v>>

\* lines 295-309: one pass of the loop body, for month i + 1
ProjectMonth ==
    /\ pc = "loop"
    /\ i < months
    /\ curr_date # NaT
    /\ LET d == AddMonths(curr_date, i + 1)
           stock == Compound(curr_stock, rate_stock, alloc_stock)
           etf == Compound(curr_etf, rate_etf, alloc_etf)
           crypto == Compound(curr_crypto, rate_crypto, alloc_crypto)
           safe == Compound(curr_safe, rate_safe, alloc_safe)
           car == Depreciate(curr_car, car_depreciation_rate)
           total == stock + etf + crypto + safe + car
       IN /\ curr_stock' = stock
          /\ curr_etf' = etf
          /\ curr_crypto' = crypto
          /\ curr_safe' = safe
          /\ curr_car' = car
          /\ future_vals' = Append(future_vals, [date |-> d, Effective_Asset |-> total])
    /\ i' = i + 1
    /\ UNCHANGED <<inputVars, pc, df_total, latestVars, sidebarVars, weightVars,
                   allocVars, final_v>>

\* line 296 when the latest row's date is NaT: relativedelta reads NaT's year
\* and month (nan) and calendar.monthrange raises; the script run ends there
ProjectRaises ==
    /\ pc = "loop"
    /\ i < months
    /\ curr_date = NaT
    /\ pc' = "raised"
    /\ UNCHANGED <<inputVars, df_total, latestVars, sidebarVars, weightVars,
                   allocVars, balanceVars, loopVars>>

\* lines 311-324, once range(1, months + 1) is exhausted
FinishProjection ==
    /\ pc = "loop"
    /\ i = months
    /\ final_v' = future_vals[Len(future_vals)].Effective_Asset
    /\ pc' = "done"
    /\ UNCHANGED <<inputVars, df_total, latestVars, sidebarVars, weightVars,
                   allocVars, balanceVars, i, future_vals>>

Next ==
    \/ LoadData
    \/ WarnEmpty
    \/ ReadLatest
    \/ Sidebar
    \/ Rerun
    \/ ComputeWeights
    \/ StartProjection
    \/ ProjectMonth
    \/ ProjectRaises
    \/ FinishProjection

Spec == Init /\ [][Next]_vars

----------------------------------------------------------------------------
(* Vocabulary of the properties *)

Loaded == pc \notin {"start"}
LatestRead == pc \in {"sidebar", "weights", "projection", "loop", "done", "raised"}
WeightsComputed == pc \in {"projection", "loop", "done", "raised"}
ProjectionStarted == pc \in {"loop", "done", "raised"}

HasDateColumn == DateCol \in sheet.columns

\* the source rows after normalisation, before the filter and the sort
SourceRows ==
    IF HasDateColumn
    THEN [k \in 1..Len(sheet.rows) |-> NormalizeRow(sheet.columns, sheet.rows[k], k)]
    ELSE <<>>

\* the first strictly positive candidate total in the documented priority
\* order (true total, total plus vehicle depreciation, total); 0 without one
FirstPositive(val) ==
    IF val["true_total"] > 0 THEN val["true_total"]
    ELSE IF val["total_plus_car"] > 0 THEN val["total_plus_car"]
    ELSE IF val["total"] > 0 THEN val["total"]
    ELSE 0

NoPositiveCandidate(val) ==
    val["true_total"] <= 0 /\ val["total_plus_car"] <= 0 /\ val["total"] <= 0

Retained(k) == \E j \in 1..Len(df_total) : df_total[j].src = k

Parsed(r) == r.date # NaT

\* the normalised value of a cell of the latest row, read from the sheet
LatestCell(col) ==
    IF col \in sheet.columns THEN NormalizeCell(sheet.rows[latest.src][col]) ELSE 0

----------------------------------------------------------------------------
(* C1 -- reconciliation priority *)

\* C1: for every source row with a strictly positive candidate, the effective
\* value load_data sets is the first candidate, in the order true total, total
\* plus vehicle depreciation, total, that is strictly positive.
C1_EffectiveIsFirstPositive ==
    Loaded =>
        \A k \in 1..Len(SourceRows) :
            ~NoPositiveCandidate(SourceRows[k].val) =>
                SourceRows[k].Effective_Asset = FirstPositive(SourceRows[k].val)

----------------------------------------------------------------------------
(* C2 -- dropped-record invariant *)

\* C2: every row of the returned series has Effective_Asset > 0, and a source
\* row whose three candidate totals are all <= 0 is not in the returned series.
C2_RetainedRowsPositive ==
    Loaded =>
        LET rows == SourceRows
        IN /\ \A j \in 1..Len(df_total) : df_total[j].Effective_Asset > 0
           /\ \A k \in 1..Len(rows) :
                 NoPositiveCandidate(rows[k].val) => ~Retained(k)

\* a two-row sheet has been loaded: one row kept, one row with a negative and
\* no positive candidate dropped
C2_Witness ==
    /\ pc = "loaded"
    /\ Len(sheet.rows) = 2
    /\ Len(df_total) = 1
    /\ \E k \in 1..Len(SourceRows) :
          /\ NoPositiveCandidate(SourceRows[k].val)
          /\ SourceRows[k].val["true_total"] < 0
          /\ ~Retained(k)

----------------------------------------------------------------------------
(* C3 -- ordering and duplicate dates *)

\* C3 as stated: dates ascend over the returned series and no two retained rows
\* share a date; of the source rows that carry one date only the last is kept.
C3_StrictlyAscendingLastWins ==
    Loaded =>
        LET rows == SourceRows
        IN /\ \A a, b \in 1..Len(df_total) :
                 (a < b /\ Parsed(df_total[a]) /\ Parsed(df_total[b])) =>
                     DateLt(df_total[a].date, df_total[b].date)
           /\ \A k \in 1..Len(rows) :
                 (rows[k].Effective_Asset > 0 /\ Parsed(rows[k])) =>
                     (Retained(k) <=>
                         ~\E m \in 1..Len(rows) :
                             /\ m > k
                             /\ rows[m].Effective_Asset > 0
                             /\ rows[m].date = rows[k].date)

\* C3 amended: the rows with a parsed date are in non-decreasing date order,
\* rows without one follow them, and every source row with a positive
\* effective value is retained exactly once, rows sharing a date included.
C3_AscendingAllRetained ==
    Loaded =>
        LET rows == SourceRows
        IN /\ \A a, b \in 1..Len(df_total) :
                 (a < b /\ Parsed(df_total[a]) /\ Parsed(df_total[b])) =>
                     DateLeq(df_total[a].date, df_total[b].date)
           /\ \A a, b \in 1..Len(df_total) :
                 (a < b /\ Parsed(df_total[b])) => Parsed(df_total[a])
           /\ \A k \in 1..Len(rows) :
                 (rows[k].Effective_Asset > 0) <=>
                     Cardinality({j \in 1..Len(df_total) : df_total[j].src = k}) = 1
           /\ \A j \in 1..Len(df_total) :
                 /\ df_total[j].src \in 1..Len(rows)
                 /\ df_total[j] = rows[df_total[j].src]

\* two source rows carrying the same parsed date are both in the returned series
C3_Witness ==
    /\ pc = "loaded"
    /\ Len(df_total) = 2
    /\ Parsed(df_total[1])
    /\ df_total[1].date = df_total[2].date
    /\ df_total[1].src # df_total[2].src

----------------------------------------------------------------------------
(* C4 -- rows without a parseable date *)

\* C4: a source row whose date cell does not parse is not in the returned
\* series, and is neither the latest nor the previous period.
C4_UnparsedDateDropped ==
    /\ Loaded => \A j \in 1..Len(df_total) : Parsed(df_total[j])
    /\ LatestRead => (Parsed(latest) /\ Parsed(prev))

----------------------------------------------------------------------------
(* C5 -- allocation weights *)

\* C5: when the latest effective value is positive, each of the four weights
\* lies in [0, 1] and the four sum to 1.
C5_WeightsWellFormed ==
    (WeightsComputed /\ latest.Effective_Asset > 0) =>
        /\ \A w \in {w_stock, w_etf, w_crypto, w_safe} :
              0 <= w[1] /\ w[1] <= w[2]
        /\ w_stock[1] + w_etf[1] + w_crypto[1] + w_safe[1] = total_investable

----------------------------------------------------------------------------
(* C6 -- projection horizon and recurrence *)

RECURSIVE BalancesAfter(_)
\* the class balances after k applications of the documented per-class update
BalancesAfter(k) ==
    IF k = 0
    THEN [stock |-> stock_val, etf |-> etf_val, crypto |-> crypto_val,
          safe |-> twd_cash_val + fx_cash_val + real_estate_val + other_val,
          car |-> car_val]
    ELSE LET b == BalancesAfter(k - 1)
             c == MulDiv(b.car, 12000 - car_depreciation_rate, 12000)
         IN [stock |-> MulDiv(b.stock, 12000 + rate_stock, 12000) + alloc_stock,
             etf |-> MulDiv(b.etf, 12000 + rate_etf, 12000) + alloc_etf,
             crypto |-> MulDiv(b.crypto, 12000 + rate_crypto, 12000) + alloc_crypto,
             safe |-> MulDiv(b.safe, 12000 + rate_safe, 12000) + alloc_safe,
             car |-> IF c < 0 THEN 0 ELSE c]

\* what the loop has emitted so far: point k is dated k months after the
\* latest date, later than point k - 1, and carries the sum of the balances
\* after k updates; the loop emits months = 12 x forecast_years points
ProjectionShape ==
    ProjectionStarted =>
        /\ months = 12 * forecast_years
        /\ Len(future_vals) = i /\ i <= months
        /\ pc = "done" => Len(future_vals) = months
        /\ \A k \in 1..Len(future_vals) :
              /\ future_vals[k].date = AddMonths(latest.date, k)
              /\ k > 1 => DateLt(future_vals[k - 1].date, future_vals[k].date)
              /\ DateLt(latest.date, future_vals[k].date)
              /\ LET b == BalancesAfter(k)
                 IN future_vals[k].Effective_Asset
                      = b.stock + b.etf + b.crypto + b.safe + b.car

\* C6: the loop emits exactly N = 12 x forecast_years points, in increasing
\* date order from the latest date, each the sum of the class balances after
\* that many updates; so the loop, once started, runs to its end.
C6_ProjectionEmitsHorizon ==
    /\ ProjectionShape
    /\ pc # "raised"

\* the same property for the runs whose latest row has a parsed date
ProjectionShapeWhenDated ==
    (ProjectionStarted /\ Parsed(latest)) => C6_ProjectionEmitsHorizon

----------------------------------------------------------------------------
(* C7 -- distribution of the monthly contribution *)

\* C7: the four allocations sum to monthly_contribution (to within the grid:
\* four roundings), and with no current investments the whole contribution
\* goes to the safe class.
C7_ContributionDistributed ==
    ProjectionStarted =>
        /\ Abs(alloc_stock + alloc_etf + alloc_crypto + alloc_safe
                 - monthly_contribution) <= 4
        /\ (stock_val + etf_val + crypto_val + twd_cash_val + fx_cash_val
               + real_estate_val + other_val = 0)
             => alloc_safe = monthly_contribution

----------------------------------------------------------------------------
(* C8 -- vehicle depreciation *)

\* C8: with a depreciation rate of 5-30%, each month's update leaves the
\* vehicle balance non-negative, strictly smaller than before when the vehicle
\* started positive, and never above its previous value (no contribution is
\* added to it), whatever the monthly contribution.
C8_VehicleDepreciates ==
    [][(pc = "loop" /\ i' = i + 1 /\ car_depreciation_rate \in 50..300) =>
          /\ curr_car' >= 0
          /\ car_val > 0 => curr_car' < curr_car
          /\ curr_car' <= curr_car \/ curr_car' = 0]_vars

\* two months into a projection with a positive contribution, a vehicle that
\* started positive has lost value and is still positive
C8_Witness ==
    /\ pc = "loop"
    /\ i >= 2
    /\ monthly_contribution > 0
    /\ car_val > 0
    /\ curr_car > 0
    /\ curr_car < car_val

----------------------------------------------------------------------------
(* C9 -- exchange-rate guard *)

\* C9: the rate used is the latest row's parsed rate when that exceeds the
\* floor and the default (32.5, 35.0) otherwise; it is positive, and a nonzero
\* native balance converts to a nonzero base-currency value.
C9_RateGuard ==
    LatestRead =>
        /\ usd_rate = IF LatestCell("USDTWD") > RateFloor
                      THEN LatestCell("USDTWD") ELSE UsdDefault
        /\ eur_rate = IF LatestCell("EURTWD") > RateFloor
                      THEN LatestCell("EURTWD") ELSE EurDefault
        /\ usd_rate > 0 /\ eur_rate > 0
        /\ LatestCell("crypto") # 0 => crypto_val # 0
        /\ LatestCell("fx_cash") # 0 => fx_cash_val # 0
        /\ LatestCell("stock_cost") # 0 => stock_cost # 0
        /\ LatestCell("etf_cost") # 0 => etf_cost # 0
        /\ LatestCell("stock_value") # 0 => stock_val # 0
        /\ LatestCell("etf_value") # 0 => etf_val # 0

\* the latest row's USD rate cell is blank or zero (or the column is absent),
\* the default rate was used, and a nonzero crypto balance stayed nonzero
C9_Witness ==
    /\ pc = "sidebar"
    /\ LatestCell("USDTWD") = 0
    /\ usd_rate = UsdDefault
    /\ LatestCell("crypto") # 0
    /\ crypto_val # 0

----------------------------------------------------------------------------
(* C10 -- market value or cost basis *)

\* C10 as stated: per class, the market value converted to base currency when
\* it is strictly positive, the converted cost basis in every other case.
C10_MarketWhenPositive ==
    LatestRead =>
        /\ stock_val = IF LatestCell("stock_value") > 0
                       THEN Mul(LatestCell("stock_value"), usd_rate)
                       ELSE Mul(LatestCell("stock_cost"), usd_rate)
        /\ etf_val = IF LatestCell("etf_value") > 0
                     THEN Mul(LatestCell("etf_value"), eur_rate)
                     ELSE Mul(LatestCell("etf_cost"), eur_rate)

\* C10 amended: per class, the market value converted to base currency when
\* it is not zero (a negative one included), the converted cost basis when it
\* is zero, blank or missing; each class by its own columns and rate alone.
C10_MarketWhenNonzero ==
    LatestRead =>
        /\ stock_val = IF LatestCell("stock_value") # 0
                       THEN Mul(LatestCell("stock_value"), usd_rate)
                       ELSE Mul(LatestCell("stock_cost"), usd_rate)
        /\ etf_val = IF LatestCell("etf_value") # 0
                     THEN Mul(LatestCell("etf_value"), eur_rate)
                     ELSE Mul(LatestCell("etf_cost"), eur_rate)

\* the stock class fell back to its cost basis while the ETF class used its
\* market value
C10_Witness ==
    /\ pc = "sidebar"
    /\ LatestCell("stock_value") = 0
    /\ LatestCell("stock_cost") # 0
    /\ stock_val = Mul(LatestCell("stock_cost"), usd_rate)
    /\ stock_val # 0
    /\ LatestCell("etf_value") > 0
    /\ etf_val = Mul(LatestCell("etf_value"), eur_rate)
    /\ etf_val # Mul(LatestCell("etf_cost"), eur_rate)

====
